---- MODULE Spec2Model ----
(***************************************************************************)
(* A model of gif2Asci.py: the grid geometry (GetFrameData), the frame     *)
(* renderer (ProcessFrame, GetAverageBrightness, the glyph ramp) and the   *)
(* playback driver (ProcessGif, PrintFrame, SaveFrame).                    *)
(*                                                                         *)
(* Real numbers.  The script computes tileWidth, tileHeight and the tile   *)
(* bounds in binary floating point.  The model keeps them as exact         *)
(* fractions <<numerator, denominator>>.  For the scales in Scales (1/2,   *)
(* 1, 2: exact in binary) and image sizes up to 5 the truncations of the   *)
(* float values equal those of the exact ones, and for ramps of up to 11   *)
(* glyphs round() never meets a tie and equals the exact rounding.         *)
(*                                                                         *)
(* Time is counted in milliseconds.                                        *)
(*                                                                         *)
(* Inputs.  The command line is taken as validated the way its help text   *)
(* describes it: a positive width and a positive scale.  The frame number  *)
(* is any integer.                                                         *)
(***************************************************************************)
EXTENDS Integers, Sequences, FiniteSets, TLC

\* ------------------------------------------------------------- bounds
MaxImgSize == 3
MaxWidth == 3
MaxFrames == 3

\* scale factors, as fractions
Scales == {<<1, 2>>, <<1, 1>>, <<2, 1>>}
\* what rendering one frame may take, in ms: less or more than TIME_PER_FRAME
RenderTimes == {10, 100}
\* the source animations: solid (every frame of one shade), a checkerboard
\* that shifts with the frame, a fade (frame i is i brighter than frame 0)
Black == [kind |-> "solid", shade |-> 0]
White == [kind |-> "solid", shade |-> 255]
Checker == [kind |-> "checker", shade |-> 0]
\* the playback runs render with one of these: --gradient, --inverse, source
RenderSetups == {[gradient |-> 0, inverse |-> FALSE, src |-> Black],
                 [gradient |-> 1, inverse |-> TRUE, src |-> Checker],
                 [gradient |-> 2, inverse |-> FALSE, src |-> White]}
\* what the output file holds before the run
StaleBlock == [marker |-> 99, body |-> <<<<"stale">>>>]
OldFiles == {<<>>, <<StaleBlock>>}

\* ---------------------------------------------------------- constants
TIME_PER_FRAME == 65

GRAYSCALE_GRADIENTS ==
  << <<"@", "%", "#", "*", "+", "=", "-", ":", ".", " ">>,
     <<"U+2588", "U+2588", "U+2593", "U+2592", "U+2591", " ", " ">>,
     <<"U+25A0", "U+25A0", "U+25A3", "U+25A9", "U+25A8", "U+25A2", " ", " ">> >>

\* ------------------------------------------------------------ helpers
\* int() of the fraction n/d, d > 0: truncation towards zero
Trunc(n, d) ==
  IF n >= 0 THEN n \div d ELSE -((-n) \div d)

\* round() of the fraction n/d, n >= 0, d > 0: half to even
Round(n, d) ==
  LET q == n \div d
      r == n % d
  IN IF 2 * r < d THEN q
     ELSE IF 2 * r > d THEN q + 1
     ELSE IF q % 2 = 0 THEN q ELSE q + 1

\* the brightness of pixel (x, y) of frame i of the source
Pixel(src, i, x, y) ==
  IF src.kind = "solid" THEN src.shade
  ELSE IF src.kind = "fade" THEN (IF src.shade + i > 255 THEN 255 ELSE src.shade + i)
  ELSE IF (i + x + y) % 2 = 0 THEN 0 ELSE 255

RECURSIVE SumSeq(_)
SumSeq(s) ==
  IF s = <<>> THEN 0 ELSE Head(s) + SumSeq(Tail(s))

\* frame.crop(rect) then getdata(): the pixels of the tile, row by row
CropPixels(src, i, rect) ==
  LET w == IF rect[3] > rect[1] THEN rect[3] - rect[1] ELSE 0
      h == IF rect[4] > rect[2] THEN rect[4] - rect[2] ELSE 0
  IN [k \in 1..(w * h) |->
        Pixel(src, i, rect[1] + ((k - 1) % w), rect[2] + ((k - 1) \div w))]

\* GetAverageBrightness: sum(pixels) // len(pixels); -1 stands for the
\* ZeroDivisionError of an empty tile
GetAverageBrightness(src, i, rect) ==
  LET pixels == CropPixels(src, i, rect)
  IN IF Len(pixels) = 0 THEN -1 ELSE SumSeq(pixels) \div Len(pixels)

\* ----------------------------------------------------------- geometry
\* GetFrameData without the test of the height
GetFrameData_NoHeightCheck(size, w, sc) ==
  LET tw == <<size[1], w>>
      th == <<tw[1] * sc[2], tw[2] * sc[1]>>
      h  == Trunc(size[2] * th[2], th[1])
  IN [imgWidth |-> size[1], imgHeight |-> size[2], tileWidth |-> tw,
      tileHeight |-> th, height |-> h,
      tooSmall |-> (size[1] < w)]

\* GetFrameData: the tuple it computes, and whether it exits
GetFrameData(size, w, sc) ==
  LET tw == <<size[1], w>>
      th == <<tw[1] * sc[2], tw[2] * sc[1]>>
      h  == Trunc(size[2] * th[2], th[1])
  IN [imgWidth |-> size[1], imgHeight |-> size[2], tileWidth |-> tw,
      tileHeight |-> th, height |-> h,
      tooSmall |-> (size[1] < w \/ h < 1)]

\* TileRect without the last row's y2 forced to the image height
TileRect_NoLastRow(g, w, x, y) ==
  LET y1 == Trunc(y * g.tileHeight[1], g.tileHeight[2])
      y2 == Trunc((y + 1) * g.tileHeight[1], g.tileHeight[2])
      x1 == Trunc(x * g.tileWidth[1], g.tileWidth[2])
      x2 == IF x = w - 1 THEN g.imgWidth
            ELSE Trunc((x + 1) * g.tileWidth[1], g.tileWidth[2])
  IN <<x1, y1, x2, y2>>

\* the rectangle (x1, y1, x2, y2) ProcessFrame crops for column x of row y
TileRect(g, w, x, y) ==
  LET y1 == Trunc(y * g.tileHeight[1], g.tileHeight[2])
      y2 == IF y = g.height - 1 THEN g.imgHeight
            ELSE Trunc((y + 1) * g.tileHeight[1], g.tileHeight[2])
      x1 == Trunc(x * g.tileWidth[1], g.tileWidth[2])
      x2 == IF x = w - 1 THEN g.imgWidth
            ELSE Trunc((x + 1) * g.tileWidth[1], g.tileWidth[2])
  IN <<x1, y1, x2, y2>>

\* the index with the inverse flag ignored
RampIndex_NoInverse(b, n, inv) ==
  Round(b * (n - 1), 255)

\* the index into the ramp of brightness b
RampIndex(b, n, inv) ==
  IF inv THEN Round((255 - b) * (n - 1), 255)
  ELSE Round(b * (n - 1), 255)

\* ProcessFrame: the tiles in the order of the loops (row by row), the
\* lines built, and whether a tile raised
ProcessFrame(src, i, g, w, ramp, inv) ==
  LET count == IF g.height > 0 /\ w > 0 THEN g.height * w ELSE 0
      rectOf(k) == TileRect(g, w, (k - 1) % w, (k - 1) \div w)
      avg(k) == GetAverageBrightness(src, i, rectOf(k))
      bad == {k \in 1..count : avg(k) = -1}
      firstBad == IF bad = {} THEN 0
                  ELSE CHOOSE k \in bad : \A j \in bad : k <= j
      rows == IF g.height > 0 THEN g.height ELSE 0
      idx(k) == IF avg(k) = -1 THEN -1 ELSE RampIndex(avg(k), Len(ramp), inv)
  IN [raised |-> firstBad # 0,
      sampled |-> [k \in 1..(IF firstBad # 0 THEN firstBad ELSE count) |->
                    [rect |-> rectOf(k), avgBrightness |-> avg(k), index |-> idx(k)]],
      aImg |-> IF firstBad # 0 THEN <<>>
               ELSE [y \in 1..rows |->
                      [x \in 1..w |->
                        ramp[RampIndex(avg((y - 1) * w + x), Len(ramp), inv) + 1]]]]

\* -------------------------------------------------------------- state
VARIABLES
  im,               \* the opened source: size, n_frames, src
  width, scale, frameToPrint, inverse,   \* the arguments of ProcessGif
  SAVE_ENABLED, GRAYSCALE_CHARS,         \* the module's flags
  geom,             \* what GetFrameData returned
  pc,               \* where ProcessGif is
  exitCode,         \* the process's exit status, -1 while running
  pos,              \* im.tell(): the frame the source is at
  prevTime, clock,  \* the loop's prevTime and the wall clock
  stdout,           \* what was written to the terminal, in order
  file,             \* the blocks of the output file, in order
  sampled,          \* per tile of the last ProcessFrame: the rectangle cropped,
                    \* its average brightness and the ramp index chosen
  mode,             \* the branch ProcessGif took: "single" or "continuous"
  diagnostic,       \* the fatal message printed, or the exception raised
  file0,            \* the output file as it was before the run
  trace             \* the frames rendered, the dispatches and the sleeps so far

vars == <<im, width, scale, frameToPrint, inverse, SAVE_ENABLED, GRAYSCALE_CHARS,
          geom, pc, exitCode, pos, prevTime, clock, stdout, file, sampled, mode,
          diagnostic, file0, trace>>

config == <<im, width, scale, frameToPrint, inverse, SAVE_ENABLED, GRAYSCALE_CHARS, file0>>

NoGeom == [imgWidth |-> 0, imgHeight |-> 0, tileWidth |-> <<0, 1>>,
           tileHeight |-> <<0, 1>>, height |-> 0, tooSmall |-> FALSE]

\* the two fatal diagnostics
TooSmallMsg == "Image is too small to process."
OutOfRangeMsg == "Frame is out of range."

\* terminal output: n lines of text, a rendered frame, or a cursor-up escape
Info(n) == [kind |-> "info", frame |-> -1, n |-> n, body |-> <<>>]
FrameOut(k, img) == [kind |-> "frame", frame |-> k, n |-> Len(img), body |-> img]
CursorUp(n) == [kind |-> "up", frame |-> -1, n |-> n, body |-> <<>>]

\* PrintFrame: one print per line
PrintFrame(out, k, asciiImg) ==
  Append(out, FrameOut(k, asciiImg))

\* SaveFrame appending whatever the mode
SaveFrame_AlwaysAppend(f, asciiImg, frameNumber, writeMode) ==
  Append(f, [marker |-> frameNumber, body |-> asciiImg])

\* SaveFrame: open in writeMode, write the marker line and the lines
SaveFrame(f, asciiImg, frameNumber, writeMode) ==
  LET block == [marker |-> frameNumber, body |-> asciiImg]
  IN IF writeMode = "w" THEN <<block>> ELSE Append(f, block)

\* the state after the __main__ block has parsed the arguments
Init ==
  /\ \E W \in 1..MaxImgSize, H \in 1..MaxImgSize, n \in 1..MaxFrames, rs \in RenderSetups :
        /\ im = [size |-> <<W, H>>, n_frames |-> n, src |-> rs.src]
        /\ inverse = rs.inverse
        /\ GRAYSCALE_CHARS = GRAYSCALE_GRADIENTS[rs.gradient + 1]
  /\ width \in 1..MaxWidth
  /\ scale \in Scales
  /\ frameToPrint \in -1..(im.n_frames + 1)
  /\ SAVE_ENABLED \in BOOLEAN
  /\ geom = NoGeom
  /\ pc = "open"
  /\ exitCode = -1
  /\ pos = 0
  /\ prevTime = 0
  /\ clock = 0
  /\ stdout = <<Info(1)>>
  /\ file0 \in OldFiles
  /\ file = file0
  /\ sampled = <<>>
  /\ mode = ""
  /\ diagnostic = ""
  /\ trace = [dispatched |-> <<>>, slept |-> <<>>, rendered |-> <<>>]

\* ProcessGif up to the frame selection: open the source, GetFrameData
Open ==
  /\ pc = "open"
  /\ LET g == GetFrameData(im.size, width, scale)
     IN /\ geom' = g
        /\ IF g.tooSmall
           THEN /\ stdout' = stdout \o <<Info(3), Info(1)>>
                /\ pc' = "exited"
                /\ exitCode' = 1
                /\ diagnostic' = TooSmallMsg
           ELSE /\ stdout' = Append(stdout, Info(3))
                /\ pc' = "select"
                /\ UNCHANGED <<exitCode, diagnostic>>
  /\ UNCHANGED <<config, pos, prevTime, clock, file, sampled, mode, trace>>

\* the sink of one rendered frame
Dispatch(k, asciiImg, writeMode, at) ==
  /\ IF SAVE_ENABLED
     THEN /\ file' = SaveFrame(file, asciiImg, k, writeMode)
          /\ UNCHANGED stdout
     ELSE /\ stdout' = PrintFrame(stdout, k, asciiImg)
          /\ UNCHANGED file
  /\ trace' = [trace EXCEPT
                 !.dispatched = Append(@, [frame |-> k, at |-> at,
                                           sink |-> IF SAVE_ENABLED THEN "file" ELSE "terminal"]),
                 !.rendered = Append(@, k)]

\* the range check, one off at the upper end
OutOfRange_OffByOne(frame, n) ==
  frame < 0 \/ frame > n

\* the range check of the zero-based frame
OutOfRange(frame, n) ==
  frame < 0 \/ frame >= n

\* ProcessGif with frameToPrint # 0: the branch takes no time of its own in
\* the model, it never reads the clock
SingleFrame ==
  /\ pc = "select"
  /\ frameToPrint # 0
  /\ mode' = "single"
  /\ LET frame == frameToPrint - 1
     IN IF OutOfRange(frame, im.n_frames)
        THEN /\ stdout' = Append(stdout, Info(1))
             /\ pc' = "exited"
             /\ exitCode' = 1
             /\ diagnostic' = OutOfRangeMsg
             /\ UNCHANGED <<pos, file, sampled, trace>>
        ELSE LET res == ProcessFrame(im.src, frame, geom, width, GRAYSCALE_CHARS, inverse)
             IN /\ pos' = frame
                /\ sampled' = res.sampled
                /\ IF res.raised
                   THEN /\ pc' = "crashed"
                        /\ exitCode' = 1
                        /\ diagnostic' = "ZeroDivisionError"
                        /\ UNCHANGED <<stdout, file, trace>>
                   ELSE /\ pc' = "done"
                        /\ exitCode' = 0
                        /\ UNCHANGED diagnostic
                        /\ Dispatch(frame, res.aImg, "w", clock)
  /\ UNCHANGED <<config, geom, prevTime, clock>>

\* ProcessGif with frameToPrint = 0: prevTime = time(), the iterator at frame 0
StartLoop ==
  /\ pc = "select"
  /\ frameToPrint = 0
  /\ prevTime' = clock
  /\ pos' = 0
  /\ pc' = "loop"
  /\ mode' = "continuous"
  /\ UNCHANGED <<config, geom, exitCode, clock, stdout, file, sampled, diagnostic, trace>>

\* the loop's output with the cursor moved up by the frame's lines only
LoopOutput_UpByHeight(k, asciiImg) ==
  LET shown == Append(stdout, Info(1))
  IN IF SAVE_ENABLED THEN shown
     ELSE IF k # im.n_frames - 1
          THEN Append(Append(shown, FrameOut(k, asciiImg)), CursorUp(Len(asciiImg)))
          ELSE Append(shown, FrameOut(k, asciiImg))

\* what the loop's body writes to the terminal after the frame was rendered
LoopOutput(k, asciiImg) ==
  LET shown == Append(stdout, Info(1))
  IN IF SAVE_ENABLED THEN shown
     ELSE IF k # im.n_frames - 1
          THEN Append(PrintFrame(shown, k, asciiImg), CursorUp(Len(asciiImg) + 1))
          ELSE PrintFrame(shown, k, asciiImg)

\* an iterator that skips a frame
NextFrame_Skip(p) ==
  p + 2

\* ImageSequence.Iterator: the frame after frame p
NextFrame(p) ==
  p + 1

\* one pass of the loop over ImageSequence.Iterator(im)
LoopBody ==
  /\ pc = "loop"
  /\ pos < im.n_frames
  /\ \E r \in RenderTimes :
       LET currentTime == clock
           deltaTime == currentTime - prevTime
           res == ProcessFrame(im.src, pos, geom, width, GRAYSCALE_CHARS, inverse)
           nap == IF deltaTime < TIME_PER_FRAME THEN TIME_PER_FRAME - deltaTime ELSE 0
       IN /\ prevTime' = currentTime
          /\ sampled' = res.sampled
          /\ IF res.raised
             THEN /\ stdout' = Append(stdout, Info(1))
                  /\ pc' = "crashed"
                  /\ exitCode' = 1
                  /\ diagnostic' = "ZeroDivisionError"
                  /\ clock' = currentTime + r
                  /\ UNCHANGED <<pos, file, trace>>
             ELSE /\ stdout' = LoopOutput(pos, res.aImg)
                  /\ file' = IF SAVE_ENABLED THEN SaveFrame(file, res.aImg, pos, "a") ELSE file
                  /\ trace' = [dispatched |-> Append(trace.dispatched,
                                 [frame |-> pos, at |-> currentTime + r,
                                  sink |-> IF SAVE_ENABLED THEN "file" ELSE "terminal"]),
                               rendered |-> Append(trace.rendered, pos),
                               slept |-> IF nap > 0 THEN Append(trace.slept, nap)
                                         ELSE trace.slept]
                  /\ clock' = currentTime + r + nap
                  /\ pos' = NextFrame(pos)
                  /\ UNCHANGED <<pc, exitCode, diagnostic>>
  /\ UNCHANGED <<config, geom, mode>>

\* the iterator is exhausted: ProcessGif returns
LoopEnd ==
  /\ pc = "loop"
  /\ pos >= im.n_frames
  /\ pc' = "done"
  /\ exitCode' = 0
  /\ UNCHANGED <<config, geom, pos, prevTime, clock, stdout, file, sampled, mode,
                 diagnostic, trace>>

Next ==
  \/ Open
  \/ SingleFrame
  \/ StartLoop
  \/ LoopBody
  \/ LoopEnd

Spec == Init /\ [][Next]_vars

\* ------------------------------------------- the ramp mapping on its own
\* every ramp length from 1 to 10: the non-empty prefixes of the three gradients
Ramps ==
  UNION {{SubSeq(GRAYSCALE_GRADIENTS[i], 1, n) : n \in 1..Len(GRAYSCALE_GRADIENTS[i])} :
           i \in 1..3}

\* a 2 x 2 source of two solid frames of brightness b and b + 1
InitRamp ==
  /\ \E b \in 0..254 :
        im = [size |-> <<2, 2>>, n_frames |-> 2, src |-> [kind |-> "fade", shade |-> b]]
  /\ width = 2
  /\ scale = <<1, 1>>
  /\ frameToPrint = 0
  /\ inverse \in BOOLEAN
  /\ SAVE_ENABLED = FALSE
  /\ GRAYSCALE_CHARS \in Ramps
  /\ geom = GetFrameData(im.size, width, scale)
  /\ pc = "render"
  /\ exitCode = -1
  /\ pos = 0
  /\ prevTime = 0
  /\ clock = 0
  /\ stdout = <<>>
  /\ file0 = <<>>
  /\ file = file0
  /\ sampled = <<>>
  /\ mode = ""
  /\ diagnostic = ""
  /\ trace = [dispatched |-> <<>>, slept |-> <<>>, rendered |-> <<>>]

\* ProcessFrame applied to both frames: the samples and the lines of each
RenderPair ==
  /\ pc = "render"
  /\ LET res0 == ProcessFrame(im.src, 0, geom, width, GRAYSCALE_CHARS, inverse)
         res1 == ProcessFrame(im.src, 1, geom, width, GRAYSCALE_CHARS, inverse)
     IN /\ sampled' = res0.sampled \o res1.sampled
        /\ stdout' = PrintFrame(PrintFrame(stdout, 0, res0.aImg), 1, res1.aImg)
  /\ pc' = "mapped"
  /\ UNCHANGED <<config, geom, exitCode, pos, prevTime, clock, file, mode, diagnostic, trace>>

SpecRamp == InitRamp /\ [][RenderPair]_vars

\* ------------------------------------------------------------- claims
NoFrameShown ==
  \A i \in DOMAIN stdout : stdout[i].kind # "frame"

NothingRendered ==
  /\ trace.rendered = <<>>
  /\ trace.dispatched = <<>>
  /\ sampled = <<>>
  /\ file = file0
  /\ NoFrameShown

FloorHeight ==
  (im.size[2] * width * scale[1]) \div (im.size[1] * scale[2])

\* C4: GetFrameData ends the run as too small (diagnostic, exit status 1)
\* exactly when imgWidth < width or floor(imgHeight / tileHeight) < 1, and
\* otherwise returns that floor as the height; when it ends the run no frame
\* was rendered and neither the terminal nor the file received one.
C4_InfeasibleGeometry ==
  pc # "open" =>
    /\ (diagnostic = TooSmallMsg) <=> (im.size[1] < width \/ FloorHeight < 1)
    /\ diagnostic # TooSmallMsg => geom.height = FloorHeight
    /\ diagnostic = TooSmallMsg =>
          /\ pc = "exited"
          /\ exitCode = 1
          /\ NothingRendered

\* the run ended as too small for its height alone
C4_Witness ==
  /\ diagnostic = TooSmallMsg
  /\ im.size[1] >= width
  /\ pc = "exited"

\* C5: frame number 0 selects the loop over all frames, never frame 0; a
\* non-zero number k ends the run as out of range (diagnostic, exit status
\* 1) exactly when k < 0 or k > n_frames, and then no frame was rendered and
\* neither sink received one.
C5_FrameSelection ==
  (pc \notin {"open", "select"} /\ diagnostic # TooSmallMsg) =>
    /\ frameToPrint = 0 =>
          /\ mode = "continuous"
          /\ diagnostic # OutOfRangeMsg
          /\ pc = "done" => Len(trace.rendered) = im.n_frames
    /\ frameToPrint # 0 =>
          /\ mode = "single"
          /\ (diagnostic = OutOfRangeMsg) <=> (frameToPrint < 0 \/ frameToPrint > im.n_frames)
    /\ diagnostic = OutOfRangeMsg =>
          /\ pc = "exited"
          /\ exitCode = 1
          /\ NothingRendered

\* a frame number above the number of frames was refused
C5_Witness ==
  /\ diagnostic = OutOfRangeMsg
  /\ frameToPrint > im.n_frames
  /\ pc = "exited"

\* C10: every tile ProcessFrame hands to GetAverageBrightness holds at least
\* one pixel (x2 > x1 and y2 > y1), and its sample is an integer in 0..255.
C10_NoZeroAreaTile ==
  \A k \in DOMAIN sampled :
    /\ sampled[k].rect[3] > sampled[k].rect[1]
    /\ sampled[k].rect[4] > sampled[k].rect[2]
    /\ sampled[k].avgBrightness \in 0..255


\* C1: after a run of the loop that saves, over a source of n frames, the
\* file holds exactly the n blocks of this run (the first write truncates),
\* whatever it held before.
C1_FileHoldsThisRunOnly ==
  (pc = "done" /\ mode = "continuous" /\ SAVE_ENABLED) =>
    /\ Len(file) = im.n_frames
    /\ \A i \in DOMAIN file : file[i].marker = i - 1

\* C2: in the loop, between the dispatch of one frame and the dispatch of
\* the next at least TIME_PER_FRAME passes.
C2_PacingCapsRate ==
  mode = "continuous" =>
    \A i \in 1..(Len(trace.dispatched) - 1) :
      trace.dispatched[i + 1].at - trace.dispatched[i].at >= TIME_PER_FRAME

\* the terminal row the cursor is on after the first i outputs
RECURSIVE Row(_, _)
Row(out, i) ==
  IF i = 0 THEN 0
  ELSE Row(out, i - 1) + (IF out[i].kind = "up" THEN -out[i].n ELSE out[i].n)

IsFrame(e) ==
  e.kind = "frame"

FrameEvents ==
  {i \in DOMAIN stdout : IsFrame(stdout[i])}

\* the frame numbers printed, in order
ShownFrames ==
  LET fs == SelectSeq(stdout, IsFrame)
  IN [i \in DOMAIN fs |-> fs[i].frame]

UpTo(n) ==
  [i \in 1..n |-> i - 1]

\* C7: in the loop that prints, every frame but the last is followed by
\* exactly one cursor-up of height + 1 lines and the last by none, so every
\* frame starts on the row the first one started on and the cursor ends
\* below the last frame; no cursor-up is written when saving or in
\* single-frame mode.
C7_CursorUp ==
  /\ \A i \in DOMAIN stdout :
        stdout[i].kind = "up" =>
          /\ mode = "continuous" /\ ~SAVE_ENABLED
          /\ i > 1 /\ stdout[i - 1].kind = "frame"
          /\ stdout[i - 1].frame # im.n_frames - 1
          /\ stdout[i].n = geom.height + 1
  /\ (mode = "continuous" /\ ~SAVE_ENABLED) =>
        /\ \A i \in FrameEvents :
              /\ stdout[i].frame # im.n_frames - 1 =>
                    (i < Len(stdout) /\ stdout[i + 1].kind = "up")
              /\ stdout[i].frame = im.n_frames - 1 => i = Len(stdout)
              /\ \A j \in FrameEvents : Row(stdout, i - 1) = Row(stdout, j - 1)
        /\ pc = "done" =>
              \E i \in FrameEvents :
                /\ stdout[i].frame = im.n_frames - 1
                /\ Row(stdout, Len(stdout)) = Row(stdout, i - 1) + geom.height

\* the loop printed several frames and returned
C7_Witness ==
  /\ pc = "done"
  /\ mode = "continuous"
  /\ ~SAVE_ENABLED
  /\ Cardinality(FrameEvents) >= 3
  /\ Cardinality({i \in DOMAIN stdout : stdout[i].kind = "up"}) >= 2

C6_RampMapping ==
  pc = "mapped" =>
    LET N == Len(GRAYSCALE_CHARS)
        perFrame == Len(sampled) \div 2
        shadeOf(k) == IF k <= perFrame THEN im.src.shade ELSE im.src.shade + 1
        target(b) == IF inverse THEN (255 - b) * (N - 1) ELSE b * (N - 1)
        glyphsOf(f) == {stdout[f].body[y][x] : y \in 1..geom.height, x \in 1..width}
    IN /\ perFrame = geom.height * width
       /\ \A k \in DOMAIN sampled :
            LET b == shadeOf(k)
                index == sampled[k].index
            IN /\ sampled[k].avgBrightness = b
               /\ index \in 0..(N - 1)
               /\ (2 * 255 * index - 2 * target(b)) \in -255..255
               /\ b = 0 => index = (IF inverse THEN N - 1 ELSE 0)
               /\ b = 255 => index = (IF inverse THEN 0 ELSE N - 1)
       /\ \A k \in 1..perFrame :
            IF inverse THEN sampled[k].index >= sampled[k + perFrame].index
            ELSE sampled[k].index <= sampled[k + perFrame].index
       /\ \A f \in 1..2, y \in 1..geom.height, x \in 1..width :
            stdout[f].body[y][x] =
              GRAYSCALE_CHARS[sampled[(f - 1) * perFrame + (y - 1) * width + x].index + 1]
       /\ GRAYSCALE_CHARS = GRAYSCALE_GRADIENTS[1] =>
            /\ (im.src.shade = 0 /\ ~inverse) => glyphsOf(1) = {"@"}
            /\ (im.src.shade = 0 /\ inverse) => glyphsOf(1) = {" "}
            /\ (im.src.shade = 254 /\ ~inverse) => glyphsOf(2) = {" "}

\* an inverted black frame was rendered with the default ramp
C6_Witness ==
  /\ pc = "mapped"
  /\ inverse
  /\ im.src.shade = 0
  /\ GRAYSCALE_CHARS = GRAYSCALE_GRADIENTS[1]
  /\ Len(sampled) = 8

====
